---- MODULE Spec2Model ----
(***************************************************************************)
(* CallAnalyzer AI (src/main.py): the call-analysis pipeline               *)
(* (transcribe_audio, segment_call, calculate_talk_ratio,                  *)
(* extract_call_metrics, process_audio, the timeline of                    *)
(* render_results_tabs) and the Streamlit session that drives it.          *)
(*                                                                         *)
(* Python values are represented as follows.                               *)
(*   None            the record None                                       *)
(*   dict            a function whose domain is the set of its keys        *)
(*   list            a sequence; List(l), the record [list |-> l], where   *)
(*                   the code may find None in its place (the segments)    *)
(*   str             a sequence of one-character strings when the code     *)
(*                   looks inside it (transcript, segment text); the       *)
(*                   record Str(s) when the code only tests or forwards it *)
(*                   (API key, URL)                                        *)
(*   float           timestamps are integers (a fixed unit of time); a     *)
(*                   true division a / b is the record Quot(a, b)          *)
(*   raise E         the record Exception(E) in place of the return value  *)
(***************************************************************************)
EXTENDS Integers, Sequences, FiniteSets, TLC

VARIABLES
    api_key,          \* st.session_state.api_key
    uploaded_audio,   \* st.session_state.uploaded_audio
    audio_url,        \* st.session_state.audio_url
    transcript,       \* st.session_state.transcript
    segments,         \* st.session_state.segments
    processing,       \* st.session_state.processing
    call_stages,      \* st.session_state.call_stages
    metrics,          \* st.session_state.metrics
    env_key,          \* os.getenv("MISTRAL_API_KEY")
    uploaded_file,    \* value of the st.file_uploader widget
    url_input,        \* value of the "Enter URL to MP3 audio" st.text_input widget
    pc,               \* where the script is: "idle" (run finished), "transcribe"
                      \* (transcribe_audio called), "post" (inside requests.post),
                      \* "returned" (transcribe_audio returned)
    args,             \* arguments of the current (last) transcribe_audio call
    requests,         \* HTTP requests sent by the current (last) transcribe_audio call
    ret,              \* the last function call that returned, and its return value
    outcome           \* how the last analysis attempt ended

vars == <<api_key, uploaded_audio, audio_url, transcript, segments, processing,
          call_stages, metrics, env_key, uploaded_file, url_input, pc, args,
          requests, ret, outcome>>

results == <<transcript, segments, call_stages, metrics>>

-----------------------------------------------------------------------------
(* Bounds *)

\* longest segment list given to the pure functions
MaxSegments == 5
\* longest segment list in a provider response of the session
MaxBodySegments == 2

-----------------------------------------------------------------------------
(* Python values *)

None == [none |-> TRUE]

Str(s) == [str |-> s]

EmptyDict == [k \in {} |-> None]

Exception(e) == [exception |-> e]

IsException(v) == "exception" \in DOMAIN v

Quot(a, b) == [num |-> a, den |-> b]

List(l) == [list |-> l]

IsList(v) == "list" \in DOMAIN v

\* bool(x) for the values the code tests: None, "" and [] are false
Truthy(x) == x # None /\ x # Str("") /\ x # List(<<>>)

\* d.get(key, default)
Get(d, key, default) == IF key \in DOMAIN d THEN d[key] ELSE default

Min(a, b) == IF a <= b THEN a ELSE b

Max(a, b) == IF a >= b THEN a ELSE b

\* s[a:b] for 0 <= a, 0 <= b
Slice(s, a, b) == SubSeq(s, Min(a, Len(s)) + 1, Min(b, Len(s)))

-----------------------------------------------------------------------------
(* segment_call *)

StageNames == <<"intro", "issue_description", "resolution", "objection", "closing">>

\* int(total_segments * p / 100) for p in {15, 45, 65, 85}: the float product
\* total_segments * 0.15 (0.45, 0.65, 0.85) truncates to the same integer as
\* the exact product for every total_segments below 2000.
Cut(total_segments, p) == (total_segments * p) \div 100

intro_end(n) == Max(1, Cut(n, 15))

\* line 156 without its clamp: int(total_segments * 0.45)
issue_end_unclamped(n) == Cut(n, 45)

issue_end(n) == Max(intro_end(n), Cut(n, 45))

resolution_end(n) == Max(issue_end(n), Cut(n, 65))

objection_end(n) == Max(resolution_end(n), Cut(n, 85))

segment_call(segs) ==
    IF ~IsList(segs) THEN Exception("TypeError")    \* len(None)
    ELSE LET total_segments == Len(segs.list) IN
         IF total_segments > 0
         THEN [intro             |-> Slice(segs.list, 0, intro_end(total_segments)),
               issue_description |-> Slice(segs.list, intro_end(total_segments),
                                                 issue_end(total_segments)),
               resolution        |-> Slice(segs.list, issue_end(total_segments),
                                                 resolution_end(total_segments)),
               objection         |-> Slice(segs.list, resolution_end(total_segments),
                                                 objection_end(total_segments)),
               closing           |-> Slice(segs.list, objection_end(total_segments),
                                                 total_segments)]
         ELSE [intro |-> <<>>, issue_description |-> <<>>, resolution |-> <<>>,
               objection |-> <<>>, closing |-> <<>>]

-----------------------------------------------------------------------------
(* calculate_talk_ratio *)

\* the for loop of calculate_talk_ratio: i is the 0-based index of the next
\* segment, acc the pair of accumulators after the first i segments
RECURSIVE talk_loop(_, _, _)
talk_loop(segs, i, acc) ==
    IF i >= Len(segs) THEN acc
    ELSE LET segment  == segs[i + 1]
             duration == Get(segment, "end", 0) - Get(segment, "start", 0)
         IN  IF i % 2 = 0
             THEN talk_loop(segs, i + 1,
                            [acc EXCEPT !.agent_duration = @ + duration])
             ELSE talk_loop(segs, i + 1,
                            [acc EXCEPT !.customer_duration = @ + duration])

\* line 183 without lines 180-181
divisor_unguarded(customer_duration) == customer_duration

\* the divisor after "if customer_duration == 0: customer_duration = 1"
divisor(customer_duration) ==
    IF customer_duration = 0 THEN 1 ELSE customer_duration

calculate_talk_ratio(segs) ==
    IF ~IsList(segs) THEN Exception("TypeError")    \* enumerate(None)
    ELSE LET acc == talk_loop(segs.list, 0, [agent_duration |-> 0,
                                         customer_duration |-> 0])
         IN  Quot(acc.agent_duration, divisor(acc.customer_duration))

-----------------------------------------------------------------------------
(* extract_call_metrics *)

IsSpace(c) == c \in {" ", "\t", "\n"}

\* len(text.split()): the number of maximal runs of non-whitespace characters
word_count(text) ==
    Cardinality({i \in 1..Len(text) :
                    /\ ~IsSpace(text[i])
                    /\ (i = 1 \/ IsSpace(text[i - 1]))})

\* c.lower() for the letters the transcripts use
LowerChar(c) ==
    CASE c = "S" -> "s"
      [] c = "U" -> "u"
      [] c = "I" -> "i"
      [] c = "H" -> "h"
      [] OTHER   -> c

lower(text) == [i \in 1..Len(text) |-> LowerChar(text[i])]

\* text.count(word): non-overlapping occurrences, scanning from the left
RECURSIVE count_from(_, _, _)
count_from(text, word, i) ==
    IF i + Len(word) - 1 > Len(text) THEN 0
    ELSE IF SubSeq(text, i, i + Len(word) - 1) = word
         THEN 1 + count_from(text, word, i + Len(word))
         ELSE count_from(text, word, i + 1)

count(text, word) == count_from(text, word, 1)

filler_words == << <<"u", "m">>, <<"u", "h">>, <<"l", "i", "k", "e">>,
                   <<"y", "o", "u", " ", "k", "n", "o", "w">>, <<"s", "o">> >>

RECURSIVE SumSeq(_)
SumSeq(s) == IF s = <<>> THEN 0 ELSE Head(s) + SumSeq(Tail(s))

filler_count(text) ==
    SumSeq([k \in 1..Len(filler_words) |-> count(lower(text), filler_words[k])])

\* segments[0] in place of segments[-1]
first(segs) == segs.list[1]

\* the last segment of a non-empty list
last(segs) == segs.list[Len(segs.list)]

extract_call_metrics(text, segs) ==
    IF Truthy(segs) /\ "end" \notin DOMAIN last(segs)
    THEN Exception("KeyError")                               \* segments[-1]['end']
    ELSE IF IsException(calculate_talk_ratio(segs))
    THEN calculate_talk_ratio(segs)
    ELSE [duration         |-> IF Truthy(segs) THEN last(segs).end ELSE 0,
          word_count       |-> word_count(text),
          talk_ratio       |-> calculate_talk_ratio(segs),
          filler_count     |-> filler_count(text),
          filler_frequency |-> IF word_count(text) > 0
                               THEN Quot(filler_count(text), word_count(text))
                               ELSE Quot(0, 1)]

-----------------------------------------------------------------------------
(* transcribe_audio *)

Endpoint == "https://api.mistral.ai/v1/audio/transcriptions"

Model == "voxtral-mini-2507"

ApiKeyRequired ==
    Str("API key is required. Please provide a Mistral API key in the API Configuration section.")

NoAudioProvided == Str("No audio provided")

\* line 110 without the fallback to the environment
resolve_session_key_only(session_key, env) == session_key

\* st.session_state.api_key if st.session_state.api_key else os.getenv(...)
resolve_api_key(session_key, env) == IF Truthy(session_key) THEN session_key ELSE env

\* lines 108-133 without the check of lines 112-113
transcribe_begin_unchecked(a_url, a_file, session_key, env) ==
    LET key     == IF Truthy(session_key) THEN session_key ELSE env
        headers == [Authorization |-> [bearer |-> key]]
    IN  IF Truthy(a_url)
        THEN [post |-> [url |-> Endpoint, headers |-> headers,
                        json |-> [file_url |-> a_url, model |-> Model,
                                  timestamp_granularities |-> "segment"]]]
        ELSE IF Truthy(a_file)
        THEN [post |-> [url |-> Endpoint, headers |-> headers,
                        files |-> [file |-> a_file, model |-> Model,
                                   timestamp_granularities |-> "segment"]]]
        ELSE [return |-> [result |-> None, error |-> NoAudioProvided]]

\* transcribe_audio up to its first return or its call of requests.post:
\* [return |-> (result, error)] or [post |-> the request]
transcribe_begin(a_url, a_file, session_key, env) ==
    LET key     == resolve_api_key(session_key, env)
        headers == [Authorization |-> [bearer |-> key]]
    IN  IF ~Truthy(key)
        THEN [return |-> [result |-> None, error |-> ApiKeyRequired]]
        ELSE IF Truthy(a_url)
        THEN [post |-> [url |-> Endpoint, headers |-> headers,
                        json |-> [file_url |-> a_url, model |-> Model,
                                  timestamp_granularities |-> "segment"]]]
        ELSE IF Truthy(a_file)
        THEN [post |-> [url |-> Endpoint, headers |-> headers,
                        files |-> [file |-> a_file, model |-> Model,
                                   timestamp_granularities |-> "segment"]]]
        ELSE [return |-> [result |-> None, error |-> NoAudioProvided]]

\* transcribe_audio from the end of requests.post to its return. The
\* response is [raised |-> e] when requests.post raised, and otherwise
\* [status_code, text, json], json being the value of response.json() or the
\* exception it raises.
transcribe_end(response) ==
    IF "raised" \in DOMAIN response
    THEN [result |-> None, error |-> [str |-> "Exception: ", e |-> response.raised]]
    ELSE IF response.status_code = 200
         THEN IF IsException(response.json)
              THEN [result |-> None,
                    error  |-> [str |-> "Exception: ", e |-> response.json.exception]]
              ELSE [result |-> response.json, error |-> None]
         ELSE [result |-> None,
               error  |-> [str |-> "API Error: ", status_code |-> response.status_code,
                           text |-> response.text]]

-----------------------------------------------------------------------------
(* render_results_tabs: the timeline *)

Contains(list, x) == \E j \in 1..Len(list) : list[j] = x

\* the loop "for stage_name, stage_segments in call_stages.items()" from the
\* k-th stage on; a dict iterates in insertion order, which is StageNames
RECURSIVE find_stage(_, _, _)
find_stage(segment, stages, k) ==
    IF k > Len(StageNames) THEN "Unknown"
    ELSE IF StageNames[k] \in DOMAIN stages /\ Contains(stages[StageNames[k]], segment)
         THEN StageNames[k]
         ELSE find_stage(segment, stages, k + 1)

\* stage.capitalize().replace('_', ' ')
StageLabel(stage) ==
    CASE stage = "intro"             -> "Intro"
      [] stage = "issue_description" -> "Issue description"
      [] stage = "resolution"        -> "Resolution"
      [] stage = "objection"         -> "Objection"
      [] stage = "closing"           -> "Closing"
      [] stage = "Unknown"           -> "Unknown"

\* text[:50] + "..." if len(text) > 50 else text
Truncate(text) ==
    IF Len(text) > 50 THEN SubSeq(text, 1, 50) \o <<".", ".", ".">> ELSE text

\* the entry appended for the segment at 0-based index i
timeline_entry(i, segment, stages) ==
    [Speaker  |-> IF i % 2 = 0 THEN "Agent" ELSE "Customer",
     Start    |-> Get(segment, "start", 0),
     Duration |-> Get(segment, "end", 0) - Get(segment, "start", 0),
     Stage    |-> StageLabel(find_stage(segment, stages, 1)),
     Text     |-> Truncate(Get(segment, "text", <<>>)),
     Segment  |-> i + 1]

\* timeline_data of render_results_tabs, or None when it is not built
timeline_data(text, segs, stages) ==
    IF text = <<>> THEN None
    ELSE IF ~Truthy(segs) THEN None
    ELSE [timeline |-> [j \in 1..Len(segs.list) |->
                            timeline_entry(j - 1, segs.list[j], stages)]]

-----------------------------------------------------------------------------
(* Inputs *)

SegA == [start |-> 0, end |-> 2, text |-> <<"H", "i">>]

SegB == [start |-> 2, end |-> 5, text |-> <<"u", "m">>]

\* a segment the provider sent without an 'end' key
SegNoEnd == [start |-> 2, text |-> <<"o", "k">>]

SegmentValues == {SegA, SegB, SegNoEnd}

RECURSIVE ListsUpTo(_, _)
ListsUpTo(S, n) ==
    IF n = 0 THEN {<<>>}
    ELSE LET shorter == ListsUpTo(S, n - 1)
         IN  shorter \cup {Append(l, x) : l \in {m \in shorter : Len(m) = n - 1}, x \in S}

\* "So um I will help you"
Transcript1 == <<"S", "o", " ", "u", "m", " ", "I", " ", "w", "i", "l", "l", " ",
                 "h", "e", "l", "p", " ", "y", "o", "u">>

Transcripts == {<<>>, Transcript1}

ApiKeys == {Str("sk-user")}

EnvKeys == {None, Str("sk-env")}

Files == {[name |-> "a.mp3"], [name |-> "b.wav"]}

Urls == {Str("https://example.com/1.mp3"), Str("https://example.com/2.mp3")}

\* the value of 'segments' in a success body: a list, or null
JsonSegments ==
    {List(l) : l \in ListsUpTo({SegA, SegNoEnd}, MaxBodySegments)} \cup {None}

\* the JSON objects the provider answers 200 with: 'text' and 'segments' are
\* both optional
ObjectBodies ==
    {[text |-> t, segments |-> s] : t \in Transcripts, s \in JsonSegments}
        \cup {[text |-> Transcript1], [segments |-> List(<<SegA>>)], EmptyDict}

\* a 200 answer whose JSON is not an object
ArrayBody == [array |-> <<>>]

IsDict(json) == "array" \notin DOMAIN json

Responses ==
    {[status_code |-> 200, text |-> "", json |-> b] : b \in ObjectBodies \cup {ArrayBody}}
        \cup {[status_code |-> 200, text |-> "<html>",
               json |-> Exception("JSONDecodeError")]}
        \cup {[status_code |-> 401, text |-> "Unauthorized",
               json |-> Exception("JSONDecodeError")]}
        \cup {[raised |-> "ConnectionError"]}

-----------------------------------------------------------------------------
(* The session: module level of main.py, lines 18-33 *)

Init ==
    /\ api_key = Str("")
    /\ uploaded_audio = None
    /\ audio_url = None
    /\ transcript = <<>>
    /\ segments = List(<<>>)
    /\ processing = FALSE
    /\ call_stages = EmptyDict
    /\ metrics = EmptyDict
    /\ env_key \in EnvKeys
    /\ uploaded_file = None
    /\ url_input = Str("")
    /\ pc = "idle"
    /\ args = None
    /\ requests = <<>>
    /\ ret = [fn |-> "none"]
    /\ outcome = "none"

-----------------------------------------------------------------------------
(* The widgets. Every change of a widget reruns main(); the run copies the   *)
(* widget's value into the session when it is not empty. The script is       *)
(* synchronous: no widget event is handled while it waits in requests.post.  *)

\* render_api_config: the user types a key
EnterApiKey(k) ==
    /\ pc = "idle"
    /\ api_key' = k
    /\ UNCHANGED <<uploaded_audio, audio_url, transcript, segments, processing,
                   call_stages, metrics, env_key, uploaded_file, url_input, pc,
                   args, requests, ret, outcome>>

\* render_audio_upload: the user picks a file
UploadFile(f) ==
    /\ pc = "idle"
    /\ uploaded_file' = f
    /\ uploaded_audio' = f
    /\ UNCHANGED <<api_key, audio_url, transcript, segments, processing,
                   call_stages, metrics, env_key, url_input, pc, args, requests,
                   ret, outcome>>

\* render_audio_upload: the user removes the file from the uploader
RemoveFile ==
    /\ pc = "idle"
    /\ uploaded_file # None
    /\ uploaded_file' = None
    /\ UNCHANGED <<api_key, uploaded_audio, audio_url, transcript, segments,
                   processing, call_stages, metrics, env_key, url_input, pc, args,
                   requests, ret, outcome>>

\* render_audio_upload: the user types a URL
EnterUrl(u) ==
    /\ pc = "idle"
    /\ url_input' = u
    /\ audio_url' = u
    /\ UNCHANGED <<api_key, uploaded_audio, transcript, segments, processing,
                   call_stages, metrics, env_key, uploaded_file, pc, args, requests,
                   ret, outcome>>

\* render_audio_upload: the user empties the URL field
ClearUrl ==
    /\ pc = "idle"
    /\ url_input # Str("")
    /\ url_input' = Str("")
    /\ UNCHANGED <<api_key, uploaded_audio, audio_url, transcript, segments,
                   processing, call_stages, metrics, env_key, uploaded_file, pc,
                   args, requests, ret, outcome>>

-----------------------------------------------------------------------------
(* process_audio *)

\* lines 207-214 with the two tests in the other order
process_audio_source_url_first ==
    IF Truthy(audio_url)
    THEN [audio_url |-> audio_url, audio_file |-> None]
    ELSE IF Truthy(uploaded_audio)
         THEN [audio_url |-> None, audio_file |-> uploaded_audio]
         ELSE None

\* lines 207-214: the arguments process_audio calls transcribe_audio with, or
\* None when it reports "No audio provided"
process_audio_source ==
    IF Truthy(uploaded_audio)
    THEN [audio_url |-> None, audio_file |-> uploaded_audio]
    ELSE IF Truthy(audio_url)
         THEN [audio_url |-> audio_url, audio_file |-> None]
         ELSE None

\* lines 216-219 if they also reset the stored results
process_audio_failed_resets ==
    [transcript |-> <<>>, segments |-> List(<<>>),
     call_stages |-> EmptyDict, metrics |-> EmptyDict,
     processing |-> FALSE, outcome |-> "failed"]

\* lines 216-219: transcribe_audio returned an error
process_audio_failed ==
    [transcript |-> transcript, segments |-> segments,
     call_stages |-> call_stages, metrics |-> metrics,
     processing |-> FALSE, outcome |-> "failed"]

\* lines 216-229, r being what transcribe_audio returned: the session fields
\* process_audio leaves behind, and how it ended. Line 205 has set the
\* processing flag; it stays set when an exception leaves process_audio.
process_audio_store(r) ==
    IF Truthy(r.error)
    THEN process_audio_failed
    ELSE IF ~IsDict(r.result)                        \* result.get: AttributeError
    THEN [transcript |-> transcript, segments |-> segments,
          call_stages |-> call_stages, metrics |-> metrics,
          processing |-> TRUE, outcome |-> "raised"]
    ELSE LET text    == Get(r.result, "text", <<>>)
             segs    == Get(r.result, "segments", List(<<>>))
             stages  == segment_call(segs)
             metrics_ == extract_call_metrics(text, segs)
         IN  IF IsException(stages)
             THEN [transcript |-> text, segments |-> segs,
                   call_stages |-> call_stages, metrics |-> metrics,
                   processing |-> TRUE, outcome |-> "raised"]
             ELSE IF IsException(metrics_)
             THEN [transcript |-> text, segments |-> segs,
                   call_stages |-> stages, metrics |-> metrics,
                   processing |-> TRUE, outcome |-> "raised"]
             ELSE [transcript |-> text, segments |-> segs,
                   call_stages |-> stages, metrics |-> metrics_,
                   processing |-> FALSE, outcome |-> "complete"]

\* render_audio_upload, lines 253-257, and process_audio up to its call of
\* transcribe_audio: the user clicks "Analyze Call". The button is disabled
\* while the processing flag is set.
ClickAnalyze ==
    /\ pc = "idle"
    /\ ~processing
    /\ IF Truthy(uploaded_audio) \/ Truthy(audio_url)
       THEN IF process_audio_source = None
            THEN /\ processing' = FALSE
                 /\ outcome' = "no_audio"
                 /\ UNCHANGED <<pc, args, requests>>
            ELSE /\ processing' = TRUE
                 /\ args' = process_audio_source
                 /\ requests' = <<>>
                 /\ pc' = "transcribe"
                 /\ outcome' = "running"
       ELSE /\ outcome' = "no_audio"
            /\ UNCHANGED <<processing, pc, args, requests>>
    /\ UNCHANGED <<api_key, uploaded_audio, audio_url, transcript, segments,
                   call_stages, metrics, env_key, uploaded_file, url_input, ret>>

\* transcribe_audio, lines 108-133: it returns an error, or calls requests.post
TranscribeBegin ==
    /\ pc = "transcribe"
    /\ LET begin == transcribe_begin(args.audio_url, args.audio_file, api_key, env_key)
       IN  IF "return" \in DOMAIN begin
           THEN /\ ret' = [fn |-> "transcribe_audio", value |-> begin.return]
                /\ pc' = "returned"
                /\ UNCHANGED requests
           ELSE /\ requests' = Append(requests, begin.post)
                /\ pc' = "post"
                /\ UNCHANGED ret
    /\ UNCHANGED <<api_key, uploaded_audio, audio_url, transcript, segments,
                   processing, call_stages, metrics, env_key, uploaded_file,
                   url_input, args, outcome>>

\* transcribe_audio, lines 135-141: requests.post returns or raises, and
\* transcribe_audio returns
HttpResponse(response) ==
    /\ pc = "post"
    /\ ret' = [fn |-> "transcribe_audio", value |-> transcribe_end(response)]
    /\ pc' = "returned"
    /\ UNCHANGED <<api_key, uploaded_audio, audio_url, transcript, segments,
                   processing, call_stages, metrics, env_key, uploaded_file,
                   url_input, args, requests, outcome>>

\* process_audio, lines 216-230: from the return of transcribe_audio to the
\* end of process_audio, by return or by an exception nothing catches
ProcessAudioStore ==
    /\ pc = "returned"
    /\ outcome = "running"
    /\ LET end == process_audio_store(ret.value)
       IN  /\ transcript' = end.transcript
           /\ segments' = end.segments
           /\ call_stages' = end.call_stages
           /\ metrics' = end.metrics
           /\ processing' = end.processing
           /\ outcome' = end.outcome
    /\ pc' = "idle"
    /\ UNCHANGED <<api_key, uploaded_audio, audio_url, env_key, uploaded_file,
                   url_input, args, requests, ret>>

Next ==
    \/ \E k \in ApiKeys : EnterApiKey(k)
    \/ \E f \in Files : UploadFile(f)
    \/ RemoveFile
    \/ \E u \in Urls : EnterUrl(u)
    \/ ClearUrl
    \/ ClickAnalyze
    \/ TranscribeBegin
    \/ \E response \in Responses : HttpResponse(response)
    \/ ProcessAudioStore

Spec == Init /\ [][Next]_vars

-----------------------------------------------------------------------------
(* transcribe_audio called on its own, with every combination of arguments  *)

UrlArguments == {None, Str("")} \cup Urls

FileArguments == {None} \cup Files

\* a session in which the user has or has not entered an API key
InitTranscribe ==
    /\ api_key \in {Str("")} \cup ApiKeys
    /\ uploaded_audio = None
    /\ audio_url = None
    /\ transcript = <<>>
    /\ segments = List(<<>>)
    /\ processing = FALSE
    /\ call_stages = EmptyDict
    /\ metrics = EmptyDict
    /\ env_key \in EnvKeys
    /\ uploaded_file = None
    /\ url_input = Str("")
    /\ pc = "idle"
    /\ args = None
    /\ requests = <<>>
    /\ ret = [fn |-> "none"]
    /\ outcome = "none"

\* transcribe_audio(audio_url=a_url, audio_file=a_file)
CallTranscribe(a_url, a_file) ==
    /\ pc \in {"idle", "returned"}
    /\ args' = [audio_url |-> a_url, audio_file |-> a_file]
    /\ requests' = <<>>
    /\ pc' = "transcribe"
    /\ UNCHANGED <<api_key, uploaded_audio, audio_url, transcript, segments,
                   processing, call_stages, metrics, env_key, uploaded_file,
                   url_input, ret, outcome>>

NextTranscribe ==
    \/ \E a_url \in UrlArguments, a_file \in FileArguments : CallTranscribe(a_url, a_file)
    \/ TranscribeBegin
    \/ \E response \in Responses : HttpResponse(response)

SpecTranscribe == InitTranscribe /\ [][NextTranscribe]_vars

-----------------------------------------------------------------------------
(* The functions of the pipeline applied to a stored transcript and segments *)

\* the session once lines 222-223 have stored a success body
InitPipeline ==
    /\ api_key = Str("")
    /\ uploaded_audio = None
    /\ audio_url = None
    /\ transcript \in Transcripts
    /\ segments \in {List(l) : l \in ListsUpTo(SegmentValues, MaxSegments)}
    /\ processing = TRUE
    /\ call_stages = EmptyDict
    /\ metrics = EmptyDict
    /\ env_key = None
    /\ uploaded_file = None
    /\ url_input = Str("")
    /\ pc = "returned"
    /\ args = None
    /\ requests = <<>>
    /\ ret = [fn |-> "none"]
    /\ outcome = "running"

\* line 226: st.session_state.call_stages = segment_call(segments)
CallSegmentCall ==
    /\ ret' = [fn |-> "segment_call", value |-> segment_call(segments)]
    /\ call_stages' = segment_call(segments)
    /\ UNCHANGED <<api_key, uploaded_audio, audio_url, transcript, segments,
                   processing, metrics, env_key, uploaded_file, url_input, pc,
                   args, requests, outcome>>

\* line 189: calculate_talk_ratio(segments)
CallCalculateTalkRatio ==
    /\ ret' = [fn |-> "calculate_talk_ratio", value |-> calculate_talk_ratio(segments)]
    /\ UNCHANGED <<api_key, uploaded_audio, audio_url, transcript, segments,
                   processing, call_stages, metrics, env_key, uploaded_file,
                   url_input, pc, args, requests, outcome>>

\* line 227: st.session_state.metrics = extract_call_metrics(transcript, segments)
CallExtractCallMetrics ==
    LET value == extract_call_metrics(transcript, segments)
    IN  /\ ret' = [fn |-> "extract_call_metrics", value |-> value]
        /\ metrics' = IF IsException(value) THEN metrics ELSE value
        /\ UNCHANGED <<api_key, uploaded_audio, audio_url, transcript, segments,
                       processing, call_stages, env_key, uploaded_file, url_input,
                       pc, args, requests, outcome>>

\* lines 316-339 of render_results_tabs, on the stages line 226 stored
CallRenderResultsTabs ==
    /\ call_stages # EmptyDict
    /\ ret' = [fn |-> "render_results_tabs",
               value |-> timeline_data(transcript, segments, call_stages)]
    /\ UNCHANGED <<api_key, uploaded_audio, audio_url, transcript, segments,
                   processing, call_stages, metrics, env_key, uploaded_file,
                   url_input, pc, args, requests, outcome>>

NextPipeline ==
    \/ CallSegmentCall
    \/ CallCalculateTalkRatio
    \/ CallExtractCallMetrics
    \/ CallRenderResultsTabs

SpecPipeline == InitPipeline /\ [][NextPipeline]_vars

-----------------------------------------------------------------------------
(* Properties of the pipeline functions, under SpecPipeline *)

Range(f) == {f[x] : x \in DOMAIN f}

RECURSIVE SumOver(_, _)
SumOver(f, S) ==
    IF S = {} THEN 0
    ELSE LET x == CHOOSE y \in S : TRUE IN f[x] + SumOver(f, S \ {x})

\* the stages of a stage map, in the order of StageNames
StageLists(stages) == [k \in 1..Len(StageNames) |-> stages[StageNames[k]]]

\* the number of segments in the stages before the k-th
StageOffset(stages, k) ==
    SumOver([j \in 1..Len(StageNames) |-> Len(stages[StageNames[j]])], 1..(k - 1))

\* C1: segment_call returns five stages that partition its input: the sizes
\* sum to n, every index lies in exactly one stage, every stage is a
\* contiguous slice, and the stages concatenated in the order intro,
\* issue_description, resolution, objection, closing are the input.
C1_StagesPartitionInput ==
    ret.fn = "segment_call" =>
        LET stages == ret.value
            input  == segments.list
            n      == Len(input)
        IN  /\ DOMAIN stages = Range(StageNames)
            /\ StageOffset(stages, Len(StageNames) + 1) = n
            /\ stages.intro \o stages.issue_description \o stages.resolution
                   \o stages.objection \o stages.closing = input
            /\ \A k \in 1..Len(StageNames) :
                   stages[StageNames[k]] =
                       SubSeq(input, StageOffset(stages, k) + 1,
                              StageOffset(stages, k + 1))
            /\ \A i \in 1..n :
                   Cardinality({k \in 1..Len(StageNames) :
                                   /\ StageOffset(stages, k) < i
                                   /\ i <= StageOffset(stages, k + 1)}) = 1

\* segment_call has returned five non-empty stages
C1_Witness ==
    /\ ret.fn = "segment_call"
    /\ \A k \in 1..Len(StageNames) : ret.value[StageNames[k]] # <<>>

\* the stage whose slice holds the segment at 0-based index i of n segments
SliceStage(n, i) ==
    IF i < intro_end(n) THEN "intro"
    ELSE IF i < issue_end(n) THEN "issue_description"
    ELSE IF i < resolution_end(n) THEN "resolution"
    ELSE IF i < objection_end(n) THEN "objection"
    ELSE "closing"

\* C2: the timeline has one entry per segment, in the original order, and the
\* stage of the entry at index i is the stage whose slice of
\* segment_call(segments) contains index i, also when segments at different
\* indices are equal.
C2_TimelineStageIsSliceStage ==
    (ret.fn = "render_results_tabs" /\ ret.value # None) =>
        LET timeline == ret.value.timeline
            input    == segments.list
        IN  /\ Len(timeline) = Len(input)
            /\ \A j \in 1..Len(input) :
                   /\ timeline[j].Segment = j
                   /\ timeline[j].Start = Get(input[j], "start", 0)
                   /\ timeline[j].Stage = StageLabel(SliceStage(Len(input), j - 1))

\* the duration the code gives a segment: a missing key counts 0
SegmentDuration(segment) == Get(segment, "end", 0) - Get(segment, "start", 0)

\* the summed duration of the segments whose 0-based index has the parity
ParityDuration(input, parity) ==
    SumOver([j \in 1..Len(input) |-> SegmentDuration(input[j])],
            {j \in 1..Len(input) : (j - 1) % 2 = parity})

\* C8: calculate_talk_ratio returns agent_duration / d, agent_duration the
\* sum over the even indices, customer_duration the sum over the odd indices,
\* d = customer_duration unless that is 0, and then 1; it never divides by
\* zero and returns 0 for the empty list.
C8_TalkRatio ==
    ret.fn = "calculate_talk_ratio" =>
        LET input             == segments.list
            agent_duration    == ParityDuration(input, 0)
            customer_duration == ParityDuration(input, 1)
        IN  /\ ret.value.den # 0
            /\ ret.value.num = agent_duration
            /\ ret.value.den = IF customer_duration # 0 THEN customer_duration ELSE 1
            /\ input = <<>> => ret.value = Quot(0, 1)

\* calculate_talk_ratio has returned for customer segments whose durations
\* sum to zero
C8_Witness ==
    /\ ret.fn = "calculate_talk_ratio"
    /\ Len(segments.list) >= 2
    /\ ParityDuration(segments.list, 1) = 0
    /\ ret.value.num > 0

\* C9: the duration extract_call_metrics returns is the end of the last
\* segment in input order, sorted or not, and 0 when there are no segments.
C9_DurationIsLastEnd ==
    (ret.fn = "extract_call_metrics" /\ ~IsException(ret.value)) =>
        LET input == segments.list
        IN  /\ input = <<>> => ret.value.duration = 0
            /\ input # <<>> =>
                   /\ "end" \in DOMAIN input[Len(input)]
                   /\ ret.value.duration = input[Len(input)].end
            /\ metrics = ret.value

\* extract_call_metrics has returned a duration smaller than the end of an
\* earlier segment
C9_Witness ==
    /\ ret.fn = "extract_call_metrics"
    /\ ~IsException(ret.value)
    /\ \E j \in 1..Len(segments.list) :
           Get(segments.list[j], "end", 0) > ret.value.duration

-----------------------------------------------------------------------------
(* Properties of transcribe_audio, under SpecTranscribe *)

\* the credentials of the session resolve to a key
CredentialsResolve == Truthy(api_key) \/ Truthy(env_key)

\* the current call was given a URL or a file
SourceSupplied == Truthy(args.audio_url) \/ Truthy(args.audio_file)

\* C5: a call of transcribe_audio sends exactly one HTTP request when the
\* credentials resolve and a URL or a file is supplied, none when it fails
\* for missing credentials or no audio, and never a second one, whatever the
\* response.
C5_OneRequestPerCall ==
    /\ Len(requests) <= 1
    /\ pc \in {"post", "returned"} =>
           /\ (CredentialsResolve /\ SourceSupplied) => Len(requests) = 1
           /\ ~(CredentialsResolve /\ SourceSupplied) => Len(requests) = 0
    /\ (pc = "returned" /\ ret.value.error \in {ApiKeyRequired, NoAudioProvided}) =>
           requests = <<>>

\* transcribe_audio has returned the error of a non-200 response, with one
\* request sent
C5_Witness ==
    /\ pc = "returned"
    /\ Len(requests) = 1
    /\ ret.value.error # None
    /\ "status_code" \in DOMAIN ret.value.error
    /\ ret.value.error.status_code = 401

\* C6: transcribe_audio called with neither a URL nor a file fails with
\* "No audio provided", whatever the credentials are, also when no key is set
\* in the session or the environment.
C6_NoAudioWhateverCredentials ==
    (pc = "returned" /\ ~SourceSupplied) =>
        /\ ret.value.result = None
        /\ ret.value.error = NoAudioProvided

\* C6 as amended: transcribe_audio called with neither a URL nor a file sends
\* nothing and fails with "No audio provided" when a key is set in the session
\* or the environment, and with the "API key is required" error when none is.
C6_NoAudioAfterCredentials ==
    (pc = "returned" /\ ~SourceSupplied) =>
        /\ ret.value.result = None
        /\ requests = <<>>
        /\ CredentialsResolve => ret.value.error = NoAudioProvided
        /\ ~CredentialsResolve => ret.value.error = ApiKeyRequired

\* transcribe_audio, called with neither source and a key from the
\* environment only, has returned "No audio provided"
C6_Witness ==
    /\ pc = "returned"
    /\ ~SourceSupplied
    /\ ~Truthy(api_key)
    /\ Truthy(env_key)
    /\ ret.value.error = NoAudioProvided

-----------------------------------------------------------------------------
(* Properties of the session, under Spec *)

\* C3: an analysis attempt that fails (no audio stored, missing credentials,
\* non-200 response, transport exception) leaves transcript, segments,
\* call_stages and metrics as they were before the attempt.
C3_FailureKeepsResults ==
    [][outcome' \in {"running", "failed", "no_audio"} => UNCHANGED results]_vars

\* an analysis has failed on a non-200 response after an earlier one stored
\* its results
C3_Witness ==
    /\ outcome = "failed"
    /\ pc = "idle"
    /\ "status_code" \in DOMAIN ret.value.error
    /\ metrics # EmptyDict
    /\ segments # List(<<>>)

\* C4: whenever process_audio is not running, the stored results are not
\* partially updated: call_stages = segment_call(segments) and
\* metrics = extract_call_metrics(transcript, segments), or all four fields
\* hold their initial values; for any success body.
C4_ResultsNeverPartial ==
    pc = "idle" =>
        \/ /\ call_stages = segment_call(segments)
           /\ metrics = extract_call_metrics(transcript, segments)
        \/ /\ transcript = <<>>
           /\ segments = List(<<>>)
           /\ call_stages = EmptyDict
           /\ metrics = EmptyDict

\* C7: the processing flag is set while process_audio runs and is false after
\* every way process_audio can end.
C7_FlagClearedAfterAttempt ==
    /\ pc # "idle" => processing
    /\ pc = "idle" => ~processing

\* the arguments line 208 or line 210 passes for the stored upload and URL
StoredSource ==
    IF uploaded_audio # None
    THEN [audio_url |-> None, audio_file |-> uploaded_audio]
    ELSE [audio_url |-> audio_url, audio_file |-> None]

\* C10: every analysis passes exactly one source to transcribe_audio, the
\* stored upload if there is one and otherwise the stored URL; a stored upload
\* is never cleared, so after an upload every analysis transcribes the stored
\* upload and never the URL.
C10_UploadWinsForever ==
    /\ [](pc # "idle" =>
            /\ args = StoredSource
            /\ Truthy(args.audio_url) # Truthy(args.audio_file)
            /\ uploaded_audio # None =>
                   /\ args.audio_file = uploaded_audio
                   /\ \A j \in 1..Len(requests) :
                          /\ "files" \in DOMAIN requests[j]
                          /\ requests[j].files.file = uploaded_audio)
    /\ [][/\ uploaded_audio # None => uploaded_audio' # None
          /\ uploaded_audio' \in {uploaded_audio, uploaded_file'}]_vars

\* the upload is being transcribed although the user removed the file from
\* the uploader and typed a URL
C10_Witness ==
    /\ pc = "post"
    /\ uploaded_file = None
    /\ url_input \in Urls
    /\ audio_url = url_input
    /\ "files" \in DOMAIN requests[1]

====
